---- MODULE Spec2Model ----
(***************************************************************************)
(* A model of app/src/main/cpp/native-lib.cpp: the JNI entry point         *)
(* Java_com_example_simplemediaapp_MainActivity_stringFromJNI, called by   *)
(* managed threads, possibly concurrently.  One invocation is three        *)
(* steps: line 12 constructs the local std::string, line 13 asks the       *)
(* bridging layer (JNIEnv::NewStringUTF) for a managed string, and the     *)
(* return destroys the local and hands the result to the runtime.          *)
(*                                                                         *)
(* Text is modelled as sequences of numbers: bytes on the native side,     *)
(* UTF-16 code units on the managed side.                                  *)
(***************************************************************************)
EXTENDS Integers, Sequences, FiniteSets, TLC

\* Bounds of the model: how many managed threads call, and how many
\* invocations are made in total.
NumThreads == 2
MaxCalls == 3
\* The invocations made in total where termination is checked.
MaxFairCalls == 2

Threads == 1..NumThreads

\* The jobject receivers ("this") a caller may pass.
Receivers == {"activityA", "activityB"}
\* What a thread outside the entry point holds in place of a receiver.
NoReceiver == "none"

\* The JNIEnv* a thread passes: JNI gives every thread its own.
EnvOf(t) == <<"env", t>>

\* Native storage: one automatic slot per calling thread's frame, and the
\* library's static storage (which the code does not use).
AutoLoc(t) == <<"auto", t>>
StaticLoc == <<"static", 0>>
Locs == {AutoLoc(t) : t \in Threads} \cup {StaticLoc}
DeadCell == [alive |-> FALSE, bytes |-> <<>>]

\* line 12: the bytes of the literal "Hello from C++".
HelloLiteralTypo == <<72, 101, 108, 108, 111, 32, 102, 114, 111, 109, 32, 67, 45, 45>>
HelloLiteralNewline == <<72, 101, 108, 108, 111, 32, 102, 114, 111, 109, 32, 67, 43, 43, 10>>
HelloLiteral == <<72, 101, 108, 108, 111, 32, 102, 114, 111, 109, 32, 67, 43, 43>>

VARIABLES
    pc,         \* per thread: "idle", "line12", "line13", "return"
    recv,       \* per thread: the jobject passed to the invocation in flight
    mem,        \* native storage: Locs -> [alive, bytes]
    accessors,  \* per location: the threads whose invocation in flight touched it
    tmp,        \* per thread: the value NewStringUTF gave (0 is NULL)
    exc,        \* per thread: a Java exception is pending in the thread
    failed,     \* per thread: NewStringUTF failed in this invocation
    nconv,      \* per thread: NewStringUTF calls made by this invocation
    reads,      \* per thread: the handle parameters this invocation read
    overlap,    \* per thread: another invocation was in flight meanwhile
    jheap,      \* the managed strings created so far (a reference is an index)
    ncalls,     \* invocations started so far
    done,       \* the completed invocations, in order of return
    crashed     \* the process was terminated

vars == <<pc, recv, mem, accessors, tmp, exc, failed, nconv, reads,
          overlap, jheap, ncalls, done, crashed>>

InFlight(t) == pc[t] # "idle"

Init ==
    /\ pc = [t \in Threads |-> "idle"]
    /\ recv = [t \in Threads |-> NoReceiver]
    /\ mem = [l \in Locs |-> DeadCell]
    /\ accessors = [l \in Locs |-> {}]
    /\ tmp = [t \in Threads |-> 0]
    /\ exc = [t \in Threads |-> FALSE]
    /\ failed = [t \in Threads |-> FALSE]
    /\ nconv = [t \in Threads |-> 0]
    /\ reads = [t \in Threads |-> {}]
    /\ overlap = [t \in Threads |-> FALSE]
    /\ jheap = <<>>
    /\ ncalls = 0
    /\ done = <<>>
    /\ crashed = FALSE

\* The managed runtime calls the entry point on thread t with receiver o.
Call(t, o) ==
    /\ ~crashed
    /\ pc[t] = "idle"
    /\ ncalls < MaxCalls
    /\ ncalls' = ncalls + 1
    /\ pc' = [pc EXCEPT ![t] = "line12"]
    /\ recv' = [recv EXCEPT ![t] = o]
    /\ tmp' = [tmp EXCEPT ![t] = 0]
    /\ failed' = [failed EXCEPT ![t] = FALSE]
    /\ nconv' = [nconv EXCEPT ![t] = 0]
    /\ reads' = [reads EXCEPT ![t] = {}]
    /\ overlap' = [u \in Threads |->
                     IF u = t THEN \E v \in Threads \ {t} : InFlight(v)
                     ELSE overlap[u] \/ InFlight(u)]
    /\ UNCHANGED <<mem, accessors, exc, jheap, done, crashed>>

\* line 12: where the local "hello" lives: it is an automatic variable of the
\* invocation's own frame.
HelloLocStatic(t) == StaticLoc
HelloLoc(t) == AutoLoc(t)

\* line 12: what "hello" is initialised with: the literal, whatever the
\* invocation's thread, handles or number.
HelloInitByReceiver(t) == IF recv[t] = "activityA" THEN HelloLiteral ELSE <<72, 105>>
HelloInitCounted(t) == Append(HelloLiteral, 48 + ncalls)
HelloInit(t) == HelloLiteral

\* line 12: std::string hello = "Hello from C++".  The constructor either
\* builds the text in the invocation's frame, or (where the library has to
\* heap-allocate the 14 characters: libc++'s small-string buffer holds 10 on
\* the 32-bit ABIs) throws std::bad_alloc.  Nothing catches it, and an
\* exception leaving an extern "C" JNI function terminates the process.
Construct(t) ==
    /\ ~crashed
    /\ pc[t] = "line12"
    /\ \/ /\ mem' = [mem EXCEPT ![HelloLoc(t)] =
                        [alive |-> TRUE, bytes |-> HelloInit(t)]]
          /\ accessors' = [accessors EXCEPT ![HelloLoc(t)] = @ \cup {t}]
          /\ pc' = [pc EXCEPT ![t] = "line13"]
          /\ UNCHANGED crashed
       \/ /\ crashed' = TRUE
          /\ UNCHANGED <<mem, accessors, pc>>
    /\ UNCHANGED <<recv, tmp, exc, failed, nconv, reads, overlap, jheap,
                   ncalls, done>>

\* line 13: hello.c_str() is the text followed by a NUL byte.
CStr(s) == Append(s, 0)

\* line 13: NewStringUTF reads modified UTF-8 up to the first NUL byte and
\* builds the UTF-16 code units of the managed string: one byte below 0x80 is
\* one unit, 0xC0..0xDF starts a two-byte form, 0xE0..0xEF a three-byte form.
RECURSIVE DecodeMUTF8(_)
DecodeMUTF8(bytes) ==
    IF bytes = <<>> \/ Head(bytes) = 0 THEN <<>>
    ELSE IF Head(bytes) < 128
         THEN <<Head(bytes)>> \o DecodeMUTF8(Tail(bytes))
    ELSE IF Head(bytes) < 224 /\ Len(bytes) >= 2
         THEN <<(Head(bytes) % 32) * 64 + (bytes[2] % 64)>>
              \o DecodeMUTF8(SubSeq(bytes, 3, Len(bytes)))
    ELSE IF Len(bytes) >= 3
         THEN <<(Head(bytes) % 16) * 4096 + (bytes[2] % 64) * 64 + (bytes[3] % 64)>>
              \o DecodeMUTF8(SubSeq(bytes, 4, Len(bytes)))
    ELSE <<>>

\* line 13: the handle parameters the statement reads: env is dereferenced to
\* reach NewStringUTF; the jobject parameter has no name and cannot be read.
Line13ReadsBoth == {"env", "this"}
Line13Reads == {"env"}

\* line 13: env->NewStringUTF(hello.c_str()), called once.  The bridging layer
\* either allocates a managed string holding the decoded text and gives its
\* reference, or cannot allocate: it gives NULL and leaves an
\* OutOfMemoryError pending in the calling thread.
ConvertRetry(t) ==
    /\ ~crashed
    /\ pc[t] = "line13"
    /\ reads' = [reads EXCEPT ![t] = @ \cup Line13Reads]
    /\ accessors' = [accessors EXCEPT ![HelloLoc(t)] = @ \cup {t}]
    /\ nconv' = [nconv EXCEPT ![t] = 1]
    /\ \/ /\ exc[t]
          /\ exc' = [exc EXCEPT ![t] = FALSE]
          /\ UNCHANGED <<jheap, tmp, pc, failed>>
       \/ /\ ~exc[t]
          /\ jheap' = Append(jheap, DecodeMUTF8(CStr(mem[HelloLoc(t)].bytes)))
          /\ tmp' = [tmp EXCEPT ![t] = Len(jheap) + 1]
          /\ pc' = [pc EXCEPT ![t] = "return"]
          /\ UNCHANGED <<exc, failed>>
       \/ /\ ~exc[t]
          /\ tmp' = [tmp EXCEPT ![t] = 0]
          /\ exc' = [exc EXCEPT ![t] = TRUE]
          /\ failed' = [failed EXCEPT ![t] = TRUE]
          /\ UNCHANGED <<jheap, pc>>
    /\ UNCHANGED <<recv, mem, overlap, ncalls, done, crashed>>
Convert(t) ==
    /\ ~crashed
    /\ pc[t] = "line13"
    /\ reads' = [reads EXCEPT ![t] = @ \cup Line13Reads]
    /\ accessors' = [accessors EXCEPT ![HelloLoc(t)] = @ \cup {t}]
    /\ nconv' = [nconv EXCEPT ![t] = @ + 1]
    /\ pc' = [pc EXCEPT ![t] = "return"]
    /\ \/ /\ jheap' = Append(jheap, DecodeMUTF8(CStr(mem[HelloLoc(t)].bytes)))
          /\ tmp' = [tmp EXCEPT ![t] = Len(jheap) + 1]
          /\ UNCHANGED <<exc, failed>>
       \/ /\ tmp' = [tmp EXCEPT ![t] = 0]
          /\ exc' = [exc EXCEPT ![t] = TRUE]
          /\ failed' = [failed EXCEPT ![t] = TRUE]
          /\ UNCHANGED jheap
    /\ UNCHANGED <<recv, mem, overlap, ncalls, done, crashed>>

\* line 13: "return env->NewStringUTF(...)": the value NewStringUTF gave is
\* the value returned, NULL included.
ReturnValueTranslated(t) == IF tmp[t] = 0 THEN -1 ELSE tmp[t]
ReturnValue(t) == tmp[t]

\* line 14: leaving the scope runs hello's destructor.
HelloLeaked(t) == mem[HelloLoc(t)]
HelloAfterReturn(t) == DeadCell

\* lines 13-14: the return: hello is destroyed, the frame is gone, and the
\* result goes to the
\* managed caller.  Nothing between the call and the return touches the
\* thread's pending exception (no ExceptionCheck, ExceptionClear or catch):
\* the caller gets it as NewStringUTF left it, and takes it over.
Return(t) ==
    /\ ~crashed
    /\ pc[t] = "return"
    /\ mem' = [mem EXCEPT ![HelloLoc(t)] = HelloAfterReturn(t)]
    /\ accessors' = [l \in Locs |-> accessors[l] \ {t}]
    /\ done' = Append(done,
                 [env |-> EnvOf(t),
                  recv |-> recv[t], val |-> ReturnValue(t),
                  exc |-> exc[t], failed |-> failed[t],
                  nconv |-> nconv[t], reads |-> reads[t],
                  overlap |-> overlap[t]])
    /\ exc' = [exc EXCEPT ![t] = FALSE]
    /\ pc' = [pc EXCEPT ![t] = "idle"]
    /\ recv' = [recv EXCEPT ![t] = NoReceiver]
    /\ tmp' = [tmp EXCEPT ![t] = 0]
    /\ failed' = [failed EXCEPT ![t] = FALSE]
    /\ nconv' = [nconv EXCEPT ![t] = 0]
    /\ reads' = [reads EXCEPT ![t] = {}]
    /\ overlap' = [overlap EXCEPT ![t] = FALSE]
    /\ UNCHANGED <<jheap, ncalls, crashed>>

\* One step of the invocation in flight on thread t.
Step(t) == Construct(t) \/ Convert(t) \/ Return(t)

Next ==
    \/ \E t \in Threads, o \in Receivers : Call(t, o)
    \/ \E t \in Threads : Construct(t)
    \/ \E t \in Threads : Convert(t)
    \/ \E t \in Threads : Return(t)

Spec == Init /\ [][Next]_vars

\* The same program with a smaller budget of invocations, for the check of
\* termination.
FairNext ==
    \/ \E t \in Threads, o \in Receivers : ncalls < MaxFairCalls /\ Call(t, o)
    \/ \E t \in Threads : Construct(t)
    \/ \E t \in Threads : Convert(t)
    \/ \E t \in Threads : Return(t)

\* Every thread inside the entry point keeps running: a native thread that
\* is not blocked is scheduled.
FairSpec == Init /\ [][FairNext]_vars /\ \A t \in Threads : WF_vars(Step(t))

----------------------------------------------------------------------------
(* The properties of the entry point.                                      *)

\* The text the caller expects, as UTF-16 code units: "Hello from C++".
GreetingText == <<72, 101, 108, 108, 111, 32, 102, 114, 111, 109, 32, 67, 43, 43>>

Completed == 1..Len(done)
AllIdle == \A t \in Threads : pc[t] = "idle"

\* What the caller holds after a completed invocation: a managed string with
\* its content, or null.
ValueOf(d) ==
    IF d.val \in 1..Len(jheap) THEN <<"string", jheap[d.val]>>
    ELSE <<"null", <<>>>>

Succeeded(d) == ~d.failed

\* C1: every invocation that completes without a bridging-layer allocation
\* failure returns a managed string whose content is exactly
\* "Hello from C++", whatever invocations came before it.
C1_ReturnsGreeting ==
    \A i \in Completed :
        Succeeded(done[i]) => ValueOf(done[i]) = <<"string", GreetingText>>

\* C1's case: an invocation succeeded after an earlier one failed and another
\* earlier one succeeded.
C1_Witness ==
    \E i, j, k \in Completed :
        /\ i < k /\ j < k
        /\ done[i].failed /\ Succeeded(done[j]) /\ Succeeded(done[k])

\* C2 as stated: any two invocations, sequential or overlapping, return
\* equal values.
C2_Original ==
    \A i, j \in Completed : ValueOf(done[i]) = ValueOf(done[j])

\* C2 amended: any two invocations that complete without a bridging-layer
\* allocation failure, sequential or overlapping, return equal values.
C2_IdempotentOnSuccess ==
    \A i, j \in Completed :
        (Succeeded(done[i]) /\ Succeeded(done[j]))
            => ValueOf(done[i]) = ValueOf(done[j])

\* C2's case: two successful invocations, one that ran alone and one that
\* overlapped another.
C2_Witness ==
    \E i, j \in Completed :
        /\ i # j
        /\ Succeeded(done[i]) /\ Succeeded(done[j])
        /\ ~done[i].overlap /\ done[j].overlap

\* No location of native storage is touched by two invocations in flight,
\* and every invocation past line 12 works on a live text of its own.
NoSharedAccess ==
    /\ \A l \in Locs : Cardinality(accessors[l]) <= 1
    /\ \A t \in Threads :
          pc[t] \in {"line13", "return"} =>
              /\ mem[HelloLoc(t)].alive
              /\ accessors[HelloLoc(t)] = {t}
              /\ \A u \in Threads \ {t} : HelloLoc(u) # HelloLoc(t)

\* C3 as stated: under every interleaving of the concurrent invocations no
\* location is shared between two of them, and all of them return the
\* literal.
C3_Original ==
    /\ NoSharedAccess
    /\ \A i \in Completed : ValueOf(done[i]) = <<"string", GreetingText>>

\* C3 amended: under every interleaving of the concurrent invocations each
\* works only on its own freshly created text, no location is shared between
\* two of them, and every invocation that completes without a bridging-layer
\* allocation failure returns the literal.
C3_ConcurrentSafe ==
    /\ NoSharedAccess
    /\ \A i \in Completed :
          Succeeded(done[i]) => ValueOf(done[i]) = <<"string", GreetingText>>

\* C3's case: every thread is inside the entry point at once, each holding
\* its text, and an overlapped invocation has already returned.
C3_Witness ==
    /\ \A t \in Threads : pc[t] \in {"line13", "return"}
    /\ \E i \in Completed : done[i].overlap /\ Succeeded(done[i])

\* C4 as stated: invocations given different handles (JNIEnv* or jobject)
\* return the same value.
C4_Original ==
    \A i, j \in Completed :
        (done[i].env # done[j].env \/ done[i].recv # done[j].recv)
            => ValueOf(done[i]) = ValueOf(done[j])

\* C4 amended: the handles never alter the result: two invocations given
\* different handles return the same value whenever the bridging layer's
\* conversion had the same outcome in both (the string on success, null on
\* allocation failure).
C4_HandlesDoNotAlterResult ==
    \A i, j \in Completed :
        /\ (done[i].env # done[j].env \/ done[i].recv # done[j].recv)
        /\ done[i].failed = done[j].failed
        => ValueOf(done[i]) = ValueOf(done[j])

\* C4's case: two successful invocations that differ in both handles.
C4_Witness ==
    \E i, j \in Completed :
        /\ done[i].env # done[j].env /\ done[i].recv # done[j].recv
        /\ Succeeded(done[i]) /\ Succeeded(done[j])

\* C5 as stated: no step of the entry point reads a handle it is given.
C5_Original ==
    /\ \A t \in Threads : reads[t] = {}
    /\ \A i \in Completed : done[i].reads = {}

\* C5 amended: the jobject receiver is never read; the JNIEnv* is read by
\* line 13 only, to call NewStringUTF, and not before.
C5_OnlyEnvReadAtLine13 ==
    /\ \A t \in Threads :
          /\ "this" \notin reads[t]
          /\ pc[t] \in {"line12", "line13"} => reads[t] = {}
    /\ \A i \in Completed : done[i].reads = {"env"}

\* C5's case: an invocation has gone through line 13 and returned.
C5_Witness ==
    \E i \in Completed : "env" \in done[i].reads

\* What a completed invocation gave its caller, by the outcome of its one
\* NewStringUTF call: on failure the null result with the exception still
\* pending, otherwise the greeting and no exception.
PassesBridgeResultThrough ==
    \A i \in Completed :
        /\ done[i].nconv = 1
        /\ done[i].failed => (done[i].val = 0 /\ done[i].exc)
        /\ Succeeded(done[i]) =>
              (ValueOf(done[i]) = <<"string", GreetingText>> /\ ~done[i].exc)

C7_NoPersistentState ==
    /\ mem[StaticLoc] = DeadCell
    /\ accessors[StaticLoc] = {}
    /\ AllIdle => \A l \in Locs : ~mem[l].alive /\ accessors[l] = {}

\* C7's case: several invocations have completed and none is in flight.
C7_Witness ==
    /\ AllIdle
    /\ Len(done) >= 2
    /\ \E i \in Completed : Succeeded(done[i])

\* C8: the string returned by a successful invocation has exactly 14
\* characters.
C8_Length14 ==
    \A i \in Completed :
        Succeeded(done[i]) =>
            /\ done[i].val \in 1..Len(jheap)
            /\ Len(jheap[done[i].val]) = 14

\* C8's case: a successful invocation has returned a string.
C8_Witness ==
    \E i \in Completed : Succeeded(done[i]) /\ done[i].val # 0

OneStringPerSuccess ==
    /\ \A i \in Completed : done[i].nconv = 1
    /\ \A t \in Threads : pc[t] = "idle" => ~mem[HelloLoc(t)].alive
    /\ \A i, j \in Completed :
          (i # j /\ done[i].val # 0) => done[i].val # done[j].val
    /\ \A i \in Completed :
          Succeeded(done[i]) => ValueOf(done[i]) = <<"string", GreetingText>>

\* C10 as stated: each invocation makes one NewStringUTF call and releases
\* its local text on return, and k invocations produce k caller-owned strings.
C10_Original ==
    /\ OneStringPerSuccess
    /\ AllIdle => Len(jheap) = Len(done)

\* C10 amended: each invocation that returns has made exactly one
\* NewStringUTF call and released its local text, and the invocations
\* produce one independent caller-owned string per successful conversion
\* (none for a conversion that failed), leaving no callee-owned text alive.
C10_FreshPerInvocation ==
    /\ OneStringPerSuccess
    /\ AllIdle =>
          /\ Len(jheap) = Cardinality({i \in Completed : Succeeded(done[i])})
          /\ \A l \in Locs : ~mem[l].alive

\* C10's case: two successful invocations and a failed one have returned,
\* and none is in flight.
C10_Witness ==
    /\ AllIdle
    /\ \E i, j, k \in Completed :
          /\ i # j
          /\ Succeeded(done[i]) /\ Succeeded(done[j]) /\ done[k].failed

====
